---- MODULE Spec2Model ----
(***************************************************************************)
(* Verification model of apps/desktop/src-tauri/src/recording.rs: the two  *)
(* tauri commands start_dual_recording and stop_all_recordings, the        *)
(* per-stream watcher loop start_upload_loop and the shutdown drain        *)
(* upload_remaining_chunks, over the shared RecordingState.                *)
(*                                                                         *)
(* Granularity: one action per stretch of code between two suspension      *)
(* points (.await that can actually pend).  The state mutex is held across *)
(* a suspension only by stop_all_recordings (lines 112-144, across the two *)
(* kill().await); every other critical section is an atomic step guarded   *)
(* by the mutex being free.                                                *)
(*                                                                         *)
(* Environment: whether the setup of start can fail (ffmpeg path, current  *)
(* directory, chunk directories, spawn) and whether kill() can fail is     *)
(* fixed by the initial state of each specification.  In stop,             *)
(* std::env::current_dir and read_dir succeed, and no task panics.  A      *)
(* failed manifest read in the watcher (line 405) only logs and leaves the *)
(* state unchanged, so it is a stuttering step.                            *)
(*                                                                         *)
(* In the session model a drain task (lines 470-525) is one step.  Its     *)
(* body - permit, stability wait, upload attempts - is modelled step by    *)
(* step in the second part of the module, for one upload_remaining_chunks  *)
(* call on its own.  Likewise the critical sections of the session model   *)
(* are atomic; the lock() and drop of the two mutexes are modelled one by  *)
(* one in the last part, for the lock sites of one session on their own.   *)
(***************************************************************************)
EXTENDS Naturals, FiniteSets, Sequences, TLC

\* ---- bounds of the model -------------------------------------------------
\* A caller that starts sessions without waiting for the previous one:
\* number of start_dual_recording invocations
MaxStarts == 2
\* number of stop_all_recordings invocations
MaxStops == 2
\* number of steps (a chunk file created, a manifest line appended) the
\* encoders take altogether
MaxProduced == 2
\* The same three for a caller that starts a session only from Idle:
SeqStarts == 1
SeqStops == 1
SeqProduced == 2
\* and the encoder steps in the behaviours checked under fair scheduling
LiveProduced == 2
SeqFiles == 1
\* A session long enough for a name to be listed twice:
DupProduced == 3
\* A session long enough for two chunks to be listed in one manifest:
OrdProduced == 4
OrdFiles == 2
\* A session with two names listed before either file is on disk:
MissProduced == 2
MissFiles == 2
\* A session in which the setup of start can fail, and one in which the kills
\* of stop can fail:
FaultProduced == 2
KillProduced == 2
\* number of distinct chunk file names recording_chunk_00N.mkv per directory
MaxFiles == 2
\* One upload_remaining_chunks call on its own: number of .mkv files in the
\* directory it scans
PoolFiles == 9
\* One drain task on its own: the sizes 0..MaxSize its file can have
MaxSize == 2
\* The two mutexes of one session on their own: number of stop_all_recordings
\* calls that contend for them
LockStops == 2

\* ---- values fixed by the code ---------------------------------------------
\* Semaphore::new(8), line 458
Permits == 8
\* line 452
file_stability_checks == 2
\* while attempts < 3, line 505
MaxAttempts == 3

Streams == {"screen", "video"}
Calls == 1..MaxStarts
Stops == 1..MaxStops
Files == 0..(MaxFiles - 1)
\* a watcher, and an encoder process, is named by the start call and the stream
Watchers == Calls \X Streams
\* a live-phase upload task is named by its watcher and the chunk file
LiveTasks == Calls \X Streams \X Files
\* Option::None; Some(x) is the start call whose child or options are stored.
\* An AtomicBool is named likewise: 0 is the one the RecordingState was
\* constructed with, c the one start call c creates at line 44.
None == 0

VARIABLES
  spc,        \* start call -> its position
  wpc,        \* watcher -> its position in start_upload_loop
  seen,       \* watcher -> watched_segments
  todo,       \* watcher -> what is left of the loaded manifest set to iterate
  cur,        \* watcher -> the file whose handle it is about to push
  stateLock,  \* TRUE while stop_all_recordings holds the RecordingState mutex
  process,    \* stream -> screen_process / video_process (None or the call that spawned it)
  options,    \* recording_options (None or the call that stored them)
  stateFlag,  \* which AtomicBool RecordingState.shutdown_flag points to
  flagSet,    \* the AtomicBools whose value is true
  handles,    \* upload_handles
  encAlive,   \* encoder processes alive in the OS
  dir,        \* stream -> .mkv files present in chunks/<stream>
  manifest,   \* stream -> lines of chunks/<stream>/segment_list.txt
  encLeft,    \* number of steps the encoders may still take
  env,        \* the environment of the session, fixed by the initial state:
              \*   fileNames: number of chunk file names the encoders get to use
              \*   spawnMayFail: whether the setup of start_dual_recording can fail
              \*   killMayFail: whether Child::kill can fail
  startsLeft, \* number of start calls the caller may still make
  stopsLeft,  \* number of stop calls the caller may still make
  spawned,    \* live task -> number of times it was tokio::spawn'ed
  finished,   \* live task -> number of those that ran to completion
  stopPc,     \* position of the stop_all_recordings call in progress
  stopNo,     \* number of stop calls begun so far
  stopOpts,   \* stop's local recording_options (line 142)
  stopResult, \* what the last finished stop call returned
  collected,  \* stop's local handles (line 170)
  killFailed, \* the streams whose kill() returned Err in the current stop call
  drainPc,    \* stream -> position of the upload_remaining_chunks future of the stop call
  drainRes,   \* stream -> what that future returned
  dtask,      \* stop call -> stream -> file -> state of the drain task spawned for it
  pool,       \* one upload_remaining_chunks call on its own:
              \*   task: file -> state of the task spawned for it (line 470)
              \*   permits: permits available in the call's semaphore
  file,       \* the file of one drain task on its own:
              \*   exists: whether it is on disk;  size: its size
  locks,      \* the two mutexes of one session on their own:
              \*   pc: start call, watcher loop, stop call -> its position
              \*   holder: mutex -> who holds its guard (nobody or one)
              \*   queue: mutex -> who awaits lock(), in the order of the calls
              \*   flag: the value of the session's shutdown_flag
  task        \* one drain task on its own, from the acquisition of its permit on:
              \*   pc: its position
              \*   last_size, stable_count, attempts: its locals of those names
              \*   outcomes: results of the upload attempts made so far, in order
              \*   sleeps: number of retry_interval sleeps it has gone through
              \*   broke: whether the stability wait was left through a break
              \*          (lines 480, 494)
              \*   polled: the sizes its last two stability polls read
              \*   steady: whether two successive polls have read the same size

startVars == <<spc, startsLeft>>
watchVars == <<wpc, seen, todo, cur>>
sessVars  == <<process, options, stateFlag, handles>>
fsVars    == <<dir, manifest>>
encVars   == <<encAlive, encLeft>>
liveVars  == <<spawned, finished>>
stopVars  == <<stopPc, stopNo, stopsLeft, stopOpts, stopResult, collected, killFailed>>
drainVars == <<drainPc, drainRes, dtask>>
taskVars  == <<pool, file, task, locks>>

sessionVars == <<startVars, watchVars, stateLock, sessVars, flagSet, fsVars, encVars,
                 liveVars, stopVars, drainVars, env>>

vars == <<sessionVars, taskVars>>

\* ---- RecordingState as constructed (struct at lines 17-23) ----------------
InitState ==
  /\ spc = [c \in Calls |-> "idle"]
  /\ wpc = [w \in Watchers |-> "none"]
  /\ seen = [w \in Watchers |-> {}]
  /\ todo = [w \in Watchers |-> {}]
  /\ cur = [w \in Watchers |-> 0]
  /\ stateLock = FALSE
  /\ process = [s \in Streams |-> None]
  /\ options = None
  /\ stateFlag = 0
  /\ flagSet = {}
  /\ handles = {}
  /\ encAlive = {}
  /\ dir = [s \in Streams |-> {}]
  /\ manifest = [s \in Streams |-> <<>>]
  /\ spawned = [t \in LiveTasks |-> 0]
  /\ finished = [t \in LiveTasks |-> 0]
  /\ stopPc = "idle"
  /\ stopNo = 0
  /\ stopOpts = None
  /\ stopResult = "none"
  /\ collected = {}
  /\ killFailed = {}
  /\ drainPc = [s \in Streams |-> "none"]
  /\ drainRes = [s \in Streams |-> "none"]
  /\ dtask = [k \in Stops |-> [s \in Streams |-> [f \in Files |-> "none"]]]

\* Lines 475-476 and 503: the locals of a drain task start at 0.
TaskLocals(pc) ==
  [pc |-> pc, last_size |-> 0, stable_count |-> 0, attempts |-> 0, outcomes |-> <<>>,
   sleeps |-> 0, broke |-> FALSE, polled |-> <<>>, steady |-> FALSE]

\* No upload_remaining_chunks call and no drain task under observation.
NoPool == pool = [task |-> [f \in 1..PoolFiles |-> "none"], permits |-> Permits]

\* The futures that take the mutexes of one session: the start call, its
\* two watcher loops (1 for screen, 2 for video) and the stop calls.
Starter == <<"start", 0>>
Loops == {<<"loop", i>> : i \in 1..2}
Stoppers == {<<"stop", k>> : k \in 1..LockStops}
LockProcs == {Starter} \cup Loops \cup Stoppers
\* Arc<Mutex<RecordingState>> and RecordingState.upload_handles (line 20)
Mutexes == {"state", "handles"}

LocksOf(pcs) ==
  [pc |-> pcs, holder |-> [m \in Mutexes |-> {}], queue |-> [m \in Mutexes |-> <<>>],
   flag |-> FALSE]

\* No mutex under observation.
NoLocks == locks = LocksOf([p \in LockProcs |-> "none"])

NoTask ==
  /\ NoPool
  /\ file = [exists |-> FALSE, size |-> 0]
  /\ task = TaskLocals("none")
  /\ NoLocks

\* What the encoders, the spawns and the kills of a session can do.
Environment(names, spawnFails, killFails) ==
  env = [fileNames |-> names, spawnMayFail |-> spawnFails, killMayFail |-> killFails]

\* The caller may start a second session while the first is still recording.
Init ==
  /\ InitState
  /\ startsLeft = MaxStarts /\ stopsLeft = MaxStops /\ encLeft = MaxProduced
  /\ Environment(SeqFiles, FALSE, FALSE)
  /\ NoTask

\* The caller starts a session only from Idle.
InitSeq ==
  /\ InitState
  /\ startsLeft = SeqStarts /\ stopsLeft = SeqStops /\ encLeft = SeqProduced
  /\ Environment(SeqFiles, FALSE, FALSE)
  /\ NoTask

InitLive ==
  /\ InitState
  /\ startsLeft = SeqStarts /\ stopsLeft = SeqStops /\ encLeft = LiveProduced
  /\ Environment(SeqFiles, FALSE, FALSE)
  /\ NoTask

InitDup ==
  /\ InitState
  /\ startsLeft = SeqStarts /\ stopsLeft = SeqStops /\ encLeft = DupProduced
  /\ Environment(SeqFiles, FALSE, FALSE)
  /\ NoTask

InitOrd ==
  /\ InitState
  /\ startsLeft = SeqStarts /\ stopsLeft = SeqStops /\ encLeft = OrdProduced
  /\ Environment(OrdFiles, FALSE, FALSE)
  /\ NoTask

InitMiss ==
  /\ InitState
  /\ startsLeft = SeqStarts /\ stopsLeft = SeqStops /\ encLeft = MissProduced
  /\ Environment(MissFiles, FALSE, FALSE)
  /\ NoTask

InitFault ==
  /\ InitState
  /\ startsLeft = SeqStarts /\ stopsLeft = SeqStops /\ encLeft = FaultProduced
  /\ Environment(SeqFiles, TRUE, FALSE)
  /\ NoTask

InitKill ==
  /\ InitState
  /\ startsLeft = SeqStarts /\ stopsLeft = SeqStops /\ encLeft = KillProduced
  /\ Environment(SeqFiles, FALSE, TRUE)
  /\ NoTask

\* ---- the encoders (external ffmpeg processes, opaque chunk producers) -----
\* An encoder creates a chunk file in its stream's directory.
EncoderCreate(c, s, f) ==
  /\ <<c, s>> \in encAlive
  /\ encLeft > 0
  /\ f < env.fileNames
  /\ f \notin dir[s]
  /\ dir' = [dir EXCEPT ![s] = @ \cup {f}]
  /\ encLeft' = encLeft - 1
  /\ UNCHANGED <<startVars, watchVars, stateLock, sessVars, flagSet, encAlive,
                 manifest, liveVars, stopVars, drainVars,
                 env, taskVars>>

\* An encoder appends a line to its stream's segment_list.txt.
EncoderAppend(c, s, f) ==
  /\ <<c, s>> \in encAlive
  /\ encLeft > 0
  /\ f < env.fileNames
  /\ manifest' = [manifest EXCEPT ![s] = Append(@, f)]
  /\ encLeft' = encLeft - 1
  /\ UNCHANGED <<startVars, watchVars, stateLock, sessVars, flagSet, encAlive,
                 dir, liveVars, stopVars, drainVars,
                 env, taskVars>>

\* ---- start_dual_recording --------------------------------------------------
\* Where a start call can end: "setup" is an Err from ffmpeg_path_as_str or
\* current_dir (lines 46-54), "args" an Err from construct_recording_args or
\* from the screen encoder's spawn (lines 61-72, after both directories were
\* cleaned), "video_spawn" an Err from the video encoder's spawn (line 79).
StartOutcomes ==
  IF env.spawnMayFail THEN {"ok", "setup", "args", "video_spawn"} ELSE {"ok"}

\* clean_and_create_dir (lines 56-57, 185-197) removes every regular file of
\* both chunk directories, ensure_segment_list_exists re-creates the manifest.
CleanedBy(out) == out # "setup"

\* The encoders a start call ending in out has spawned (lines 67-79).  A
\* tokio Child that is dropped is not killed: the process runs on.
SpawnedBy(c, out) ==
  CASE out = "ok"          -> {<<c, s>> : s \in Streams}
    [] out = "video_spawn" -> {<<c, "screen">>}
    [] OTHER               -> {}

\* Lines 42-89: no suspension point that can pend.  Nothing looks at
\* RecordingState before spawning.  Every Err leaves through ? with
\* RecordingState untouched.
StartSpawn(c) ==
  /\ spc[c] = "idle"
  /\ startsLeft > 0
  /\ startsLeft' = startsLeft - 1
  /\ \A b \in Calls : b < c => spc[b] # "idle"
  /\ \E out \in StartOutcomes :
       /\ dir' = IF CleanedBy(out) THEN [s \in Streams |-> {}] ELSE dir
       /\ manifest' = IF CleanedBy(out) THEN [s \in Streams |-> <<>>] ELSE manifest
       /\ encAlive' = encAlive \cup SpawnedBy(c, out)
       /\ spc' = [spc EXCEPT ![c] = IF out = "ok" THEN "spawned" ELSE "failed"]
  /\ UNCHANGED <<encLeft, watchVars, stateLock, sessVars, flagSet, liveVars, stopVars,
                 drainVars, env, taskVars>>

\* Lines 91-103: under the state mutex the call overwrites both process
\* handles, upload_handles, recording_options and shutdown_flag, releases the
\* mutex and starts polling both watchers in join!.
StartStore(c) ==
  /\ spc[c] = "spawned"
  /\ ~stateLock
  /\ process' = [s \in Streams |-> c]
  /\ handles' = {}
  /\ options' = c
  /\ stateFlag' = c
  /\ wpc' = [w \in Watchers |-> IF w[1] = c THEN "loop" ELSE wpc[w]]
  /\ spc' = [spc EXCEPT ![c] = "watching"]
  /\ UNCHANGED <<startsLeft, seen, todo, cur, stateLock, flagSet, encVars, fsVars,
                 liveVars, stopVars, drainVars,
                 env, taskVars>>

\* (mutant of JoinReady: the two loops raced as in a select!)
JoinReadyEither(c) == \E s \in Streams : wpc[<<c, s>>] = "exited"

\* Lines 100-105: join! is ready when both start_upload_loop futures are.
JoinReady(c) == \A s \in Streams : wpc[<<c, s>>] = "exited"

StartReturn(c) ==
  /\ spc[c] = "watching"
  /\ JoinReady(c)
  /\ spc' = [spc EXCEPT ![c] = "returned"]
  /\ UNCHANGED <<startsLeft, watchVars, stateLock, sessVars, flagSet, encVars, fsVars, liveVars,
                 stopVars, drainVars,
                 env, taskVars>>

\* ---- start_upload_loop -----------------------------------------------------
\* (mutant of load_segment_list: the last line of the file is not read)
load_segment_list_but_last(lines) == {lines[i] : i \in 1..(Len(lines) - 1)}

\* load_segment_list (lines 426-439): the non-empty lines, as a HashSet.
load_segment_list(lines) == {lines[i] : i \in 1..Len(lines)}

\* (mutant of ShutdownObserved: the loop is handed the AtomicBool the state
\* held before line 96 replaced it)
ShutdownObservedOldFlag(w) == 0 \in flagSet

\* Line 367: the watcher reads the AtomicBool it was handed by its start call.
ShutdownObserved(w) == w[1] \in flagSet

\* (mutant of IsNewSegment: the result of insert is ignored)
IsNewSegmentNoInsertCheck(w, f) == f \in dir[w[2]]

\* Line 378: segment_path.is_file() && watched_segments.insert(name).
IsNewSegment(w, f) == f \in dir[w[2]] /\ f \notin seen[w]

\* (mutant of InsertEvaluated: the operands of && the other way round)
InsertEvaluatedFirst(w, f) == TRUE

\* Line 378: && evaluates watched_segments.insert only when is_file() is true.
InsertEvaluated(w, f) == f \in dir[w[2]]

\* Lines 366-372 (after the sleep of line 409): top of the loop.
WatcherPoll(w) ==
  /\ wpc[w] = "loop"
  /\ todo[w] = {}
  /\ IF ShutdownObserved(w)
       THEN /\ wpc' = [wpc EXCEPT ![w] = "exited"]
            /\ UNCHANGED todo
       ELSE /\ load_segment_list(manifest[w[2]]) # {}
            /\ todo' = [todo EXCEPT ![w] = load_segment_list(manifest[w[2]])]
            /\ UNCHANGED wpc
  /\ UNCHANGED <<startVars, seen, cur, stateLock, sessVars, flagSet, encVars,
                 fsVars, liveVars, stopVars, drainVars,
                 env, taskVars>>

\* Lines 374-397: one iteration of the for loop over the loaded set (a HashSet:
\* any order), up to the tokio::spawn of the upload task.
WatcherIter(w, f) ==
  /\ wpc[w] = "loop"
  /\ f \in todo[w]
  /\ todo' = [todo EXCEPT ![w] = @ \ {f}]
  /\ seen' = [seen EXCEPT ![w] = IF InsertEvaluated(w, f) THEN @ \cup {f} ELSE @]
  /\ IF IsNewSegment(w, f)
       THEN /\ spawned' = [spawned EXCEPT ![<<w[1], w[2], f>>] = @ + 1]
            /\ cur' = [cur EXCEPT ![w] = f]
            /\ wpc' = [wpc EXCEPT ![w] = "push"]
       ELSE UNCHANGED <<spawned, cur, wpc>>
  /\ UNCHANGED <<startVars, stateLock, sessVars, flagSet, encVars, fsVars, finished,
                 stopVars, drainVars,
                 env, taskVars>>

\* Lines 400-401: lock the state, lock upload_handles, push the handle.
WatcherPush(w) ==
  /\ wpc[w] = "push"
  /\ ~stateLock
  /\ handles' = handles \cup {<<w[1], w[2], cur[w]>>}
  /\ wpc' = [wpc EXCEPT ![w] = "loop"]
  /\ cur' = [cur EXCEPT ![w] = 0]
  /\ UNCHANGED <<startVars, seen, todo, stateLock, process, options, stateFlag,
                 flagSet, encVars, fsVars, liveVars, stopVars, drainVars,
                 env, taskVars>>

\* Lines 383-397: the spawned task calls upload_file once and ends with Ok(())
\* whether the upload succeeded or failed.
LiveTaskFinish(t) ==
  /\ finished[t] < spawned[t]
  /\ finished' = [finished EXCEPT ![t] = @ + 1]
  /\ UNCHANGED <<startVars, watchVars, stateLock, sessVars, flagSet, encVars, fsVars,
                 spawned, stopVars, drainVars,
                 env, taskVars>>

\* ---- stop_all_recordings ---------------------------------------------------
\* Lines 112-114: take the state mutex, store true into the AtomicBool the
\* state currently points to.
StopBegin ==
  /\ stopPc = "idle"
  /\ stopsLeft > 0
  /\ stopsLeft' = stopsLeft - 1
  /\ ~stateLock
  /\ stateLock' = TRUE
  /\ flagSet' = flagSet \cup {stateFlag}
  /\ stopNo' = stopNo + 1
  /\ stopPc' = "kill"
  /\ collected' = {}
  /\ killFailed' = {}
  /\ drainPc' = [s \in Streams |-> "none"]
  /\ drainRes' = [s \in Streams |-> "none"]
  /\ UNCHANGED <<startVars, watchVars, sessVars, encVars, fsVars, liveVars,
                 stopOpts, stopResult, dtask,
                 env, taskVars>>

\* upload_remaining_chunks, lines 446 and 542-544: without options the future
\* returns Err on its first poll, before any sleep or read_dir.
DrainPrecondition(opts) == opts # None

\* What select! (lines 151-164) leaves of the branch that did not win: the
\* future is dropped where it stands.  Tasks it had spawned run on detached.
Dropped(pc) ==
  CASE pc = "none"  -> "dropped_unpolled"
    [] pc = "sleep" -> "dropped_unscanned"
    [] pc = "wait"  -> "dropped_waiting"
    [] OTHER        -> pc

\* (mutant of AfterSelect: the branch's error is returned with ?)
AfterSelectPropagate(res) ==
  IF res = "Err" THEN [pc |-> "idle", result |-> "Err"]
  ELSE [pc |-> "collect", result |-> "none"]

\* Lines 153-163: the winning branch's result is logged when it is an error;
\* either way control goes on to line 166.
AfterSelect(res) == [pc |-> "collect", result |-> "none"]

\* The select! completes with branch s, whose future returned res.
SelectCompletes(s, res) ==
  /\ drainPc' = [x \in Streams |-> IF x = s THEN "done" ELSE Dropped(drainPc[x])]
  /\ drainRes' = [drainRes EXCEPT ![s] = res]
  /\ stopPc' = AfterSelect(res).pc
  /\ stopResult' = IF AfterSelect(res).pc = "idle" THEN AfterSelect(res).result
                   ELSE stopResult

\* Which of the two kill().await (lines 117, 124) can return Err: none when a
\* handle is None (no kill is attempted for it).
KillFailures ==
  IF env.killMayFail THEN SUBSET {s \in Streams : process[s] # None} ELSE {{}}

\* (mutant of AfterKill: the Err of kill() is returned with ?)
AfterKillPropagate(failed) == IF failed # {} THEN "return_err" ELSE "go_on"

\* Lines 117-121 and 124-128: the Err of kill() is printed; either way control
\* goes on to the next statement.
AfterKill(failed) == "go_on"

\* (mutant of HeldAfterKills: the guard of line 112 lives on, and the lock()
\* of line 166 waits for it)
HeldAfterKillsKept(guard) == guard

\* Line 144: drop(guard).
HeldAfterKills(guard) == FALSE

\* Lines 116-151: kill both encoders (if a handle is stored), clear both
\* handles, clone the options, release the mutex, create both drain futures
\* and poll them in select! for the first time.  A drain without options is
\* ready with Err at once, so the branch polled first wins; otherwise both
\* futures go to sleep for one second (line 447).  An encoder whose kill
\* failed runs on.
StopKill ==
  /\ stopPc = "kill"
  /\ stateLock' = HeldAfterKills(stateLock)
  /\ \E failed \in KillFailures :
       /\ encAlive' = encAlive \ {<<process[s], s>> : s \in Streams \ failed}
       /\ killFailed' = failed
       /\ IF AfterKill(failed) = "go_on"
            THEN /\ process' = [s \in Streams |-> None]
                 /\ stopOpts' = options
                 /\ IF DrainPrecondition(options)
                      THEN /\ drainPc' = [s \in Streams |-> "sleep"]
                           /\ stopPc' = "select"
                           /\ UNCHANGED <<drainRes, stopResult>>
                      ELSE \E s \in Streams : SelectCompletes(s, "Err")
            ELSE /\ stopPc' = "idle"
                 /\ stopResult' = "Err"
                 /\ UNCHANGED <<process, stopOpts, drainPc, drainRes>>
  /\ UNCHANGED <<encLeft, startVars, watchVars, options, stateFlag, handles, flagSet, fsVars,
                 liveVars, stopNo, stopsLeft, collected, dtask,
                 env, taskVars>>

\* (mutant of ScanDir: files a watcher has already dispatched are skipped)
ScanDirUnseen(s) == dir[s] \ UNION {seen[<<c, s>>] : c \in Calls}

\* Lines 455-470: read_dir and one spawned task per .mkv file of the directory.
ScanDir(s) == dir[s]

\* Lines 455-541, polled after the sleep of line 447: scan the directory and
\* spawn the tasks; with nothing to wait for the future is ready with Ok.
DrainScan(s) ==
  /\ stopPc = "select"
  /\ drainPc[s] = "sleep"
  /\ dtask' = [dtask EXCEPT ![stopNo][s] =
                 [f \in Files |-> IF f \in ScanDir(s) THEN "run" ELSE "none"]]
  /\ IF ScanDir(s) = {}
       THEN SelectCompletes(s, "Ok")
       ELSE /\ drainPc' = [drainPc EXCEPT ![s] = "wait"]
            /\ UNCHANGED <<drainRes, stopPc, stopResult>>
  /\ UNCHANGED <<startVars, watchVars, stateLock, sessVars, flagSet, encVars, fsVars,
                 liveVars, stopNo, stopsLeft, stopOpts, collected, killFailed,
                 env, taskVars>>

\* Lines 532-541: every task of this drain has been joined.
DrainJoin(s) ==
  /\ stopPc = "select"
  /\ drainPc[s] = "wait"
  /\ \A f \in Files : dtask[stopNo][s][f] # "run"
  /\ SelectCompletes(s, "Ok")
  /\ UNCHANGED <<startVars, watchVars, stateLock, sessVars, flagSet, encVars, fsVars,
                 liveVars, stopNo, stopsLeft, stopOpts, collected, killFailed, dtask,
                 env, taskVars>>

\* Lines 470-525: a drain task runs (permit, stability wait, upload attempts)
\* and ends.
DrainTask(k, s, f) ==
  /\ dtask[k][s][f] = "run"
  /\ dtask' = [dtask EXCEPT ![k][s][f] = "done"]
  /\ UNCHANGED <<startVars, watchVars, stateLock, sessVars, flagSet, encVars, fsVars,
                 liveVars, stopVars, drainPc, drainRes,
                 env, taskVars>>

\* Lines 166-174: take both mutexes, drain upload_handles into a local Vec,
\* release both.
StopCollect ==
  /\ stopPc = "collect"
  /\ ~stateLock
  /\ collected' = handles
  /\ handles' = {}
  /\ stopPc' = "await"
  /\ UNCHANGED <<startVars, watchVars, stateLock, process, options, stateFlag, flagSet,
                 encVars, fsVars, liveVars, stopNo, stopsLeft, stopOpts, stopResult,
                 killFailed, drainVars,
                 env, taskVars>>

\* Lines 177-182: every collected handle has been awaited; return Ok(()).
StopReturn ==
  /\ stopPc = "await"
  /\ \A t \in collected : finished[t] = spawned[t]
  /\ stopPc' = "idle"
  /\ stopResult' = "Ok"
  /\ UNCHANGED <<startVars, watchVars, stateLock, sessVars, flagSet, encVars, fsVars,
                 liveVars, stopNo, stopsLeft, stopOpts, collected, killFailed, drainVars,
                 env, taskVars>>

\* ---- the system ------------------------------------------------------------
SessionStep ==
  \/ \E c \in Calls, s \in Streams, f \in Files : EncoderCreate(c, s, f)
  \/ \E c \in Calls, s \in Streams, f \in Files : EncoderAppend(c, s, f)
  \/ \E c \in Calls : StartStore(c)
  \/ \E c \in Calls : StartReturn(c)
  \/ \E w \in Watchers : WatcherPoll(w)
  \/ \E w \in Watchers, f \in Files : WatcherIter(w, f)
  \/ \E w \in Watchers : WatcherPush(w)
  \/ \E t \in LiveTasks : LiveTaskFinish(t)
  \/ StopBegin
  \/ StopKill
  \/ \E s \in Streams : DrainScan(s)
  \/ \E s \in Streams : DrainJoin(s)
  \/ \E k \in Stops, s \in Streams, f \in Files : DrainTask(k, s, f)
  \/ StopCollect
  \/ StopReturn

\* The commands are invoked at any time: start_dual_recording checks nothing.
Next ==
  \/ \E c \in Calls : StartSpawn(c)
  \/ SessionStep

\* The session is Idle: every earlier start call has returned and no stop call
\* is in progress.
CallerIdle ==
  stopPc = "idle" /\ \A c \in Calls : spc[c] \in {"idle", "returned", "failed"}

\* The caller keeps to the session state machine: it starts only from Idle.
NextSeq ==
  \/ \E c \in Calls : CallerIdle /\ StartSpawn(c)
  \/ SessionStep

Spec == Init /\ [][Next]_vars

SpecSeq == InitSeq /\ [][NextSeq]_vars

SpecDup == InitDup /\ [][NextSeq]_vars

SpecOrd == InitOrd /\ [][NextSeq]_vars

SpecMiss == InitMiss /\ [][NextSeq]_vars

SpecFault == InitFault /\ [][NextSeq]_vars

SpecKill == InitKill /\ [][NextSeq]_vars

\* Fair scheduling: the tokio runtime keeps polling a ready task, so a watcher
\* that can take a step takes it, a join! that is ready returns, and a stop
\* call that holds the mutex gets through its kills and releases it (kill
\* returns).  Nothing is assumed of the encoders, the uploads or the caller.
Fairness ==
  /\ \A w \in Watchers : WF_vars(WatcherPoll(w))
  /\ \A w \in Watchers : WF_vars((\E f \in Files : WatcherIter(w, f)))
  /\ \A w \in Watchers : WF_vars(WatcherPush(w))
  /\ \A c \in Calls : WF_vars(StartReturn(c))
  /\ WF_vars(StopKill)

FairSpec == InitLive /\ [][NextSeq]_vars /\ Fairness

\* What stop_all_recordings waits for, apart from the live uploads: the sleep
\* of line 447 elapses, a drain task ends (its file's size settles, each of
\* its attempts returns or times out), a drain whose tasks have ended is
\* ready, and the lock() of lines 166-167 completes.  The await of the
\* collected handles (lines 177-179) completes once the tasks behind them
\* have ended; nothing is assumed of those tasks, whose upload_file call
\* (line 389) runs under no timeout.
StopFairness ==
  /\ WF_vars(\E s \in Streams : DrainScan(s))
  /\ WF_vars(\E k \in Stops, s \in Streams, f \in Files : DrainTask(k, s, f))
  /\ WF_vars(\E s \in Streams : DrainJoin(s))
  /\ WF_vars(StopCollect)
  /\ WF_vars(StopReturn)

FairStopSpec == InitLive /\ [][NextSeq]_vars /\ Fairness /\ StopFairness

\* ---- one upload_remaining_chunks call on its own --------------------------
\* The session plays no part in what follows: it stays as constructed.
NoSession ==
  /\ InitState
  /\ startsLeft = 0 /\ stopsLeft = 0 /\ encLeft = 0
  /\ Environment(0, FALSE, FALSE)

\* Lines 455-470: the call has found PoolFiles .mkv files in its directory
\* and spawned a task for each; every task starts by awaiting a permit of the
\* call's semaphore (line 471).
InitPool ==
  /\ NoSession
  /\ pool = [task |-> [f \in 1..PoolFiles |-> "queued"], permits |-> Permits]
  /\ file = [exists |-> FALSE, size |-> 0]
  /\ task = TaskLocals("none")
  /\ NoLocks

\* (mutant of PermitsAfterAcquire: the permit is bound to _ and dropped at once)
PermitsAfterAcquireDropped(p) == p

\* Line 471: let _permit = semaphore.acquire().await takes one permit and keeps
\* it in a named local, which lives to the end of the task.
PermitsAfterAcquire(p) == p - 1

\* Line 471: acquire completes when a permit is available.
PoolAcquire(f) ==
  /\ pool.task[f] = "queued"
  /\ pool.permits > 0
  /\ pool' = [pool EXCEPT !.task[f] = "permit",
                          !.permits = PermitsAfterAcquire(pool.permits)]
  /\ UNCHANGED <<sessionVars, file, task, locks>>

\* Lines 472-525: the task runs its stability wait and its upload attempts and
\* ends; _permit is dropped with the task.
PoolTaskEnd(f) ==
  /\ pool.task[f] = "permit"
  /\ pool' = [pool EXCEPT !.task[f] = "done", !.permits = @ + 1]
  /\ UNCHANGED <<sessionVars, file, task, locks>>

NextPool ==
  \/ \E f \in 1..PoolFiles : PoolAcquire(f)
  \/ \E f \in 1..PoolFiles : PoolTaskEnd(f)

SpecPool == InitPool /\ [][NextPool]_vars

\* ---- one drain task on its own, lines 472-525 ------------------------------
\* The task has its permit; its file was in the directory when it was scanned.
InitTask ==
  /\ NoSession
  /\ NoPool
  /\ \E n \in 0..MaxSize : file = [exists |-> TRUE, size |-> n]
  /\ task = TaskLocals("stability")
  /\ NoLocks

\* Something else (the encoder before it dies, another start call's
\* clean_and_create_dir) writes to the file or removes it.
SizeChange(n) ==
  /\ task.pc \notin {"none", "done"}
  /\ file.exists
  /\ n # file.size
  /\ file' = [file EXCEPT !.size = n]
  /\ UNCHANGED <<sessionVars, pool, task, locks>>

FileRemoved ==
  /\ task.pc \notin {"none", "done"}
  /\ file.exists
  /\ file' = [file EXCEPT !.exists = FALSE]
  /\ UNCHANGED <<sessionVars, pool, task, locks>>

\* (mutant of StabilityWaitOver: one unchanged poll is enough)
StabilityWaitOverAtOnce(c) == c >= 1

\* Line 477: while stable_count < file_stability_checks.
StabilityWaitOver(c) == c >= file_stability_checks

\* (mutant of MayAttempt: the loop has no attempt budget)
MayAttemptAgain(a) == TRUE

\* Line 505: while attempts < 3.
MayAttempt(a) == a < MaxAttempts

\* Lines 506-507: attempts += 1 and the call of upload_file under a timeout.
BeginAttempt(t) == [t EXCEPT !.attempts = @ + 1, !.pc = "uploading"]

\* Lines 482-491: the size read is compared with last_size.
Compare(t, size) ==
  IF t.last_size = size
    THEN [t EXCEPT !.stable_count = @ + 1]
    ELSE [t EXCEPT !.last_size = size, !.stable_count = 0]

\* The poll that read size, as recorded for the claims.
Recorded(t, size) ==
  [t EXCEPT !.polled = IF @ = <<>> THEN <<size>> ELSE <<@[Len(@)], size>>,
            !.steady = (@ \/ (t.polled # <<>> /\ t.polled[Len(t.polled)] = size))]

\* Lines 477-507, from the loop head (after the acquisition or after the sleep
\* of line 497) to the next suspension.  With the wait over, or on a break
\* (the file is missing, line 480; its metadata cannot be read, line 494),
\* control reaches line 500 and the first upload attempt starts.  Otherwise
\* the size is compared with last_size and the task sleeps a second.
StabilityPoll ==
  /\ task.pc = "stability"
  /\ \E metadata \in {"Ok", "Err"} :
       task' = IF StabilityWaitOver(task.stable_count)
                 THEN BeginAttempt(task)
               ELSE IF ~file.exists \/ metadata = "Err"
                 THEN BeginAttempt([task EXCEPT !.broke = TRUE])
               ELSE Recorded(Compare(task, file.size), file.size)
  /\ UNCHANGED <<sessionVars, pool, file, locks>>

\* Lines 507-523: the attempt ends with Ok(Ok(_)), Ok(Err(e)) or Err(_) (the
\* timeout).  Success breaks out of the loop; the other two go to the sleep
\* of line 523.
AttemptEnds(out) ==
  /\ task.pc = "uploading"
  /\ task' = [task EXCEPT !.outcomes = Append(@, out),
                          !.pc = IF out = "ok" THEN "done" ELSE "retry_sleep"]
  /\ UNCHANGED <<sessionVars, pool, file, locks>>

\* Lines 523 and 505: after the sleep, another attempt if the budget allows,
\* else the task ends.
RetryWake ==
  /\ task.pc = "retry_sleep"
  /\ task' = IF MayAttempt(task.attempts)
               THEN BeginAttempt([task EXCEPT !.sleeps = @ + 1])
               ELSE [task EXCEPT !.sleeps = @ + 1, !.pc = "done"]
  /\ UNCHANGED <<sessionVars, pool, file, locks>>

NextTask ==
  \/ \E n \in 0..MaxSize : SizeChange(n)
  \/ FileRemoved
  \/ StabilityPoll
  \/ \E out \in {"ok", "err", "timeout"} : AttemptEnds(out)
  \/ RetryWake

SpecTask == InitTask /\ [][NextTask]_vars

\* ---- the two mutexes of one session on their own ---------------------------
\* One start call, its two watcher loops and LockStops stop calls, reduced to
\* the places where they take and drop the RecordingState mutex and the
\* upload_handles mutex.  A tokio Mutex hands the lock to the callers of
\* lock() in the order of their calls.
InitLock ==
  /\ NoSession
  /\ NoPool
  /\ file = [exists |-> FALSE, size |-> 0]
  /\ task = TaskLocals("none")
  /\ locks = LocksOf([p \in LockProcs |->
                        IF p = Starter THEN "start"
                        ELSE IF p \in Loops THEN "unborn" ELSE "idle"])

\* p calls lock() on m and awaits it at position pc.
Enqueued(l, p, m, pc) == [l EXCEPT !.queue[m] = Append(@, p), !.pc[p] = pc]

\* p drops its guards of the mutexes ms and goes on to position pc.
GuardsDropped(l, p, ms, pc) ==
  [l EXCEPT !.holder = [m \in Mutexes |-> IF m \in ms THEN @[m] \ {p} ELSE @[m]],
            !.pc[p] = pc]

\* Where a lock().await that has completed leaves its caller.
GrantedPc(pc) ==
  CASE pc = "lock_91" -> "store"
    [] pc = "lock_400" -> "held_400"
    [] pc = "lock_401" -> "push"
    [] pc = "lock_112" -> "flag"
    [] pc = "lock_166" -> "held_166"
    [] pc = "lock_167" -> "collect"

\* lock().await completes for the first caller in the queue once the mutex is
\* free.
Grant(p, m) ==
  /\ locks.holder[m] = {}
  /\ locks.queue[m] # <<>>
  /\ Head(locks.queue[m]) = p
  /\ locks' = [locks EXCEPT !.holder[m] = {p}, !.queue[m] = Tail(@),
                            !.pc[p] = GrantedPc(@)]
  /\ UNCHANGED <<sessionVars, pool, file, task>>

\* Line 91 of start_dual_recording.
StartLock ==
  /\ locks.pc[Starter] = "start"
  /\ locks' = Enqueued(locks, Starter, "state", "lock_91")
  /\ UNCHANGED <<sessionVars, pool, file, task>>

\* Lines 92-103: the state is filled in (upload_handles becomes a new, free
\* mutex), the guard is dropped and join! starts the two loops.
StartStored ==
  /\ locks.pc[Starter] = "store"
  /\ locks' = [GuardsDropped(locks, Starter, {"state"}, "join") EXCEPT
                 !.pc = [p \in LockProcs |-> IF p \in Loops THEN "check" ELSE @[p]],
                 !.holder["handles"] = {}, !.queue["handles"] = <<>>]
  /\ UNCHANGED <<sessionVars, pool, file, task>>

\* Line 367 of start_upload_loop.
LoopCheck(w) ==
  /\ locks.pc[w] = "check"
  /\ locks' = [locks EXCEPT !.pc[w] = IF locks.flag THEN "exited" ELSE "iterate"]
  /\ UNCHANGED <<sessionVars, pool, file, task>>

\* Lines 378-400: a new segment, its task spawned, and the call of
\* state.lock().
LoopLock(w) ==
  /\ locks.pc[w] = "iterate"
  /\ locks' = Enqueued(locks, w, "state", "lock_400")
  /\ UNCHANGED <<sessionVars, pool, file, task>>

\* Line 409: the manifest is through; sleep, then back to the loop head.
LoopSleep(w) ==
  /\ locks.pc[w] = "iterate"
  /\ locks' = [locks EXCEPT !.pc[w] = "check"]
  /\ UNCHANGED <<sessionVars, pool, file, task>>

\* Line 401: guard.upload_handles.lock(), called with the state guard held.
LoopLockHandles(w) ==
  /\ locks.pc[w] = "held_400"
  /\ locks' = Enqueued(locks, w, "handles", "lock_401")
  /\ UNCHANGED <<sessionVars, pool, file, task>>

\* Line 401: push; the guard of upload_handles is a temporary of the
\* statement and is dropped at its end.
LoopPush(w) ==
  /\ locks.pc[w] = "push"
  /\ locks' = GuardsDropped(locks, w, {"handles"}, "pushed")
  /\ UNCHANGED <<sessionVars, pool, file, task>>

\* Line 402: the block ends and guard is dropped.
LoopUnlock(w) ==
  /\ locks.pc[w] = "pushed"
  /\ locks' = GuardsDropped(locks, w, {"state"}, "iterate")
  /\ UNCHANGED <<sessionVars, pool, file, task>>

\* Line 112 of stop_all_recordings.
StopLock(p) ==
  /\ locks.pc[p] = "idle"
  /\ locks' = Enqueued(locks, p, "state", "lock_112")
  /\ UNCHANGED <<sessionVars, pool, file, task>>

\* Line 114.
StopFlag(p) ==
  /\ locks.pc[p] = "flag"
  /\ locks' = [locks EXCEPT !.flag = TRUE, !.pc[p] = "kills"]
  /\ UNCHANGED <<sessionVars, pool, file, task>>

\* Lines 116-144: both kill().await return, with the guard held throughout;
\* then drop(guard).
StopKills(p) ==
  /\ locks.pc[p] = "kills"
  /\ locks' = GuardsDropped(locks, p, {"state"}, "drain")
  /\ UNCHANGED <<sessionVars, pool, file, task>>

\* Lines 151-166: the select! over the two drains completes; state.lock().
StopSelect(p) ==
  /\ locks.pc[p] = "drain"
  /\ locks' = Enqueued(locks, p, "state", "lock_166")
  /\ UNCHANGED <<sessionVars, pool, file, task>>

\* Line 167: guard.upload_handles.lock(), called with the state guard held.
StopLockHandles(p) ==
  /\ locks.pc[p] = "held_166"
  /\ locks' = Enqueued(locks, p, "handles", "lock_167")
  /\ UNCHANGED <<sessionVars, pool, file, task>>

\* (mutant of DroppedBeforeAwait: the guards live to the end of the function)
DroppedAtReturn(p) == {}

\* Lines 173-174: drop(upload_handles); drop(guard), before the handles are
\* awaited.
DroppedBeforeAwait(p) == {"handles", "state"}

\* Lines 170-174: the handles are moved out of the Vec and the guards dropped.
StopCollected(p) ==
  /\ locks.pc[p] = "collect"
  /\ locks' = GuardsDropped(locks, p, DroppedBeforeAwait(p), "await")
  /\ UNCHANGED <<sessionVars, pool, file, task>>

\* Lines 177-182: every collected handle has completed; the call returns, and
\* a guard it still held would be dropped here.
StopAwaited(p) ==
  /\ locks.pc[p] = "await"
  /\ locks' = GuardsDropped(locks, p, Mutexes, "returned")
  /\ UNCHANGED <<sessionVars, pool, file, task>>

\* A step taken by the holder of a guard, on the way to dropping it.
HolderStep ==
  \/ StartStored
  \/ \E w \in Loops : LoopLockHandles(w) \/ LoopPush(w) \/ LoopUnlock(w)
  \/ \E p \in Stoppers : StopFlag(p) \/ StopKills(p) \/ StopLockHandles(p)
                           \/ StopCollected(p)

NextLock ==
  \/ \E p \in LockProcs, m \in Mutexes : Grant(p, m)
  \/ StartLock
  \/ StartStored
  \/ \E w \in Loops : LoopCheck(w)
  \/ \E w \in Loops : LoopLock(w)
  \/ \E w \in Loops : LoopSleep(w)
  \/ \E w \in Loops : LoopLockHandles(w)
  \/ \E w \in Loops : LoopPush(w)
  \/ \E w \in Loops : LoopUnlock(w)
  \/ \E p \in Stoppers : StopLock(p)
  \/ \E p \in Stoppers : StopFlag(p)
  \/ \E p \in Stoppers : StopKills(p)
  \/ \E p \in Stoppers : StopSelect(p)
  \/ \E p \in Stoppers : StopLockHandles(p)
  \/ \E p \in Stoppers : StopCollected(p)
  \/ \E p \in Stoppers : StopAwaited(p)

\* The runtime keeps polling a ready future: a lock() that can complete does,
\* and the holder of a guard goes on to the place where it drops it (the
\* kills return).  Nothing is assumed of the caller, of the drains or of the
\* uploads: a stop call may stay in its select! or in its await of the
\* collected handles for ever.
FairLock ==
  /\ \A p \in LockProcs, m \in Mutexes : WF_vars(Grant(p, m))
  /\ WF_vars(HolderStep)

SpecLock == InitLock /\ [][NextLock]_vars /\ FairLock

\* ---- the claims ------------------------------------------------------------
\* a stop call has returned, and no other is in progress
StopReturned == stopPc = "idle" /\ stopNo >= 1
\* the drain future of stream s, of the current stop call, got as far as read_dir
DrainScanned(s) ==
  \/ drainPc[s] \in {"wait", "dropped_waiting"}
  \/ drainPc[s] = "done" /\ drainRes[s] = "Ok"

\* C1: when stop_all_recordings has returned from stopping a session, no task
\* that its two upload_remaining_chunks calls spawned is still running or
\* waiting to run.
C1_StopWaitsForBothDrains ==
  (StopReturned /\ stopOpts # None) =>
    \A s \in Streams, f \in Files : dtask[stopNo][s][f] # "run"

\* C2: once the select! of a stop call that had options is over, every chunk
\* file present in either chunk directory has been dispatched to a drain task
\* of that call, whatever the other stream's drain did.
C2_EveryChunkDispatched ==
  (stopNo >= 1 /\ stopPc \in {"collect", "await", "idle"} /\ stopOpts # None) =>
    \A s \in Streams : \A f \in dir[s] : dtask[stopNo][s][f] # "none"

\* C3 (as amended): a stop call that finds recording_options None scans no
\* chunk directory and spawns no drain task; the drain's error is only logged
\* and the call returns Ok.
C3_NoOptionsStopReturnsOk ==
  (stopNo >= 1 /\ stopPc # "kill" /\ stopOpts = None) =>
    /\ \A s \in Streams : ~DrainScanned(s) /\ drainPc[s] # "sleep"
    /\ \A s \in Streams, f \in Files : dtask[stopNo][s][f] = "none"
    /\ \E s \in Streams : drainRes[s] = "Err"
    /\ stopPc \in {"collect", "await", "idle"}
    /\ stopPc = "idle" => stopResult = "Ok"

\* C3 witness: a stop call made without options has returned Ok.
C3_Witness == StopReturned /\ stopOpts = None /\ stopResult = "Ok"

\* C3 (as stated): a stop call that finds recording_options None returns an error.
C3_Original == (StopReturned /\ stopOpts = None) => stopResult = "Err"

\* C4: a start_dual_recording call that has returned Ok has both of its
\* watcher loops exited; it never returns while one of them is still polling.
C4_StartBlocksUntilWatchersExit ==
  \A c \in Calls : spc[c] = "returned" => \A s \in Streams : wpc[<<c, s>>] = "exited"

\* C4 witness: a start call has returned.
C4_Witness == \E c \in Calls : spc[c] = "returned"

\* C5: once stop has set the shutdown flag of a recording session (the flag
\* start call c created, while c is blocked in join!), both watchers of c
\* eventually exit and c eventually returns.
C5_FlagUnblocksStart ==
  \A c \in Calls : (spc[c] = "watching" /\ c \in flagSet) ~> (spc[c] = "returned")

\* C5 witness: the flag of a session is set while one of its watchers is still
\* in its loop, holding an upload handle it has yet to record.
C5_Witness ==
  \E c \in Calls : /\ spc[c] = "watching" /\ c \in flagSet
                   /\ \E s \in Streams : wpc[<<c, s>>] = "push"

\* a session is recording: its start call is blocked in join! and no stop has
\* set its shutdown flag
Recording == \E c \in Calls : spc[c] = "watching" /\ c \notin flagSet

\* C6: while a session is recording, no step spawns another encoder or
\* replaces the session's process handles, options or shutdown flag.
C6_StartOnlyFromIdle ==
  [][Recording =>
       /\ encAlive' \subseteq encAlive
       /\ \A s \in Streams : process'[s] \in {process[s], None}
       /\ options' = options
       /\ stateFlag' = stateFlag]_vars

\* C7: the step on which stop_all_recordings returns from stopping a session
\* leaves both process handles None, upload_handles empty and
\* recording_options None.
C7_StopClearsState ==
  [][(stopPc = "await" /\ stopPc' = "idle" /\ stopOpts # None) =>
       /\ \A s \in Streams : process'[s] = None
       /\ handles' = {}
       /\ options' = None]_vars

\* C8: while the stop of a session awaits the handles it collected, every live
\* upload task that has not finished is among them (so all have finished when
\* it returns), and no watcher has recorded a handle since the collection.
C8_StopAwaitsLiveTasks ==
  (stopPc = "await" /\ stopOpts # None) =>
    /\ \A t \in LiveTasks : finished[t] < spawned[t] => t \in collected
    /\ handles = {}

\* C9 (as stated): no chunk file is passed to the upload primitive both by a
\* watcher and by a drain task.
C9_Original ==
  \A k \in Stops, s \in Streams, f \in Files :
    dtask[k][s][f] = "done" => \A c \in Calls : spawned[<<c, s, f>>] = 0

\* C9 (as amended): the step on which a drain scans its directory spawns a
\* task for every chunk file present in it, the files a watcher has already
\* dispatched included, and for no other.
C9_DrainTakesEveryFile ==
  [][\A s \in Streams :
       (stopPc = "select" /\ drainPc[s] = "sleep" /\ drainPc'[s] \in {"wait", "done"}) =>
         \A f \in Files : (dtask'[stopNo][s][f] = "run") <=> (f \in dir[s])]_vars

\* C9 witness: a drain task has run for a file its stream's watcher had
\* dispatched in the live phase.
C9_Witness ==
  /\ stopNo >= 1
  /\ \E s \in Streams, f \in Files :
       dtask[stopNo][s][f] = "done" /\ f \in seen[<<1, s>>] /\ spawned[<<1, s, f>>] = 1

\* C10: a watcher's SeenSet only grows, a filename in it is not dispatched
\* again, and no watcher ever dispatches a filename twice.
C10_AtMostOneDispatch ==
  [][UNCHANGED <<seen, spawned>> \/
     \A w \in Watchers :
       /\ seen[w] \subseteq seen'[w]
       /\ \A f \in Files :
            /\ f \in seen[w] => spawned'[<<w[1], w[2], f>>] = spawned[<<w[1], w[2], f>>]
            /\ spawned'[<<w[1], w[2], f>>] <= 1]_vars

\* C10 witness: a watcher has loaded a manifest with a duplicated line whose
\* filename it dispatched on an earlier poll.
C10_Witness ==
  \E w \in Watchers, f \in Files :
    /\ f \in seen[w] /\ f \in todo[w] /\ wpc[w] = "loop"
    /\ spawned[<<w[1], w[2], f>>] = 1
    /\ Cardinality({i \in 1..Len(manifest[w[2]]) : manifest[w[2]][i] = f}) >= 2

\* name f is a line of stream s's manifest
Listed(s, f) == \E i \in 1..Len(manifest[s]) : manifest[s][i] = f
\* live task of watcher w for file f
LiveTask(w, f) == <<w[1], w[2], f>>

\* C11 (as stated): when a watcher has exited, every name listed in its
\* stream's manifest whose file is on disk has been dispatched by it once.
C11_Original ==
  \A w \in Watchers : wpc[w] = "exited" =>
    \A f \in Files : (Listed(w[2], f) /\ f \in dir[w[2]]) => spawned[LiveTask(w, f)] = 1

\* C11 (as amended): a watcher never dispatches a name twice, and a name that
\* is listed with its file on disk while the watcher is running is eventually
\* dispatched by it unless the shutdown flag of its session gets set first.
C11_DispatchedOnceUnlessShutDown ==
  /\ [](\A t \in LiveTasks : spawned[t] <= 1)
  /\ \A w \in Watchers, f \in Files :
       (wpc[w] \in {"loop", "push"} /\ Listed(w[2], f) /\ f \in dir[w[2]])
         ~> (spawned[LiveTask(w, f)] = 1 \/ w[1] \in flagSet)

\* C11 witness: a watcher whose session is not shut down has dispatched a
\* listed name whose file is on disk.
C11_Witness ==
  \E w \in Watchers, f \in Files :
    /\ wpc[w] \in {"loop", "push"} /\ w[1] \notin flagSet
    /\ Listed(w[2], f) /\ f \in dir[w[2]] /\ spawned[LiveTask(w, f)] = 1

\* name a is listed before name b in the lines of a manifest
ListedBefore(lines, a, b) ==
  \E i \in 1..Len(lines) :
    /\ lines[i] = a
    /\ \A j \in 1..i : lines[j] # b
    /\ \E k \in (i + 1)..Len(lines) : lines[k] = b

\* C12: a watcher never dispatches a name while a name listed before it waits
\* in the same loaded manifest, not yet dispatched and with its file on disk.
C12_DispatchInManifestOrder ==
  [][\A w \in Watchers, a \in Files, b \in Files :
       ~ /\ ListedBefore(manifest[w[2]], a, b)
         /\ a \in todo[w] /\ IsNewSegment(w, a)
         /\ spawned'[LiveTask(w, b)] = spawned[LiveTask(w, b)] + 1]_vars

\* C13: once stop is past its kill section (the encoders of the session are
\* killed, the drains are created, scan or are over, the live tasks are
\* awaited), both watcher loops of the session it stops have exited.
C13_StopOrdered ==
  (stopPc \in {"select", "collect", "await"} /\ stopOpts # None) =>
    \A s \in Streams : wpc[<<stopOpts, s>>] = "exited"

\* the tasks of the drain call that are past the acquisition of their permit
PermitHolders == {f \in 1..PoolFiles : pool.task[f] = "permit"}

\* C14: in one drain call over more files than the semaphore has permits, at
\* most Permits tasks are past the acquisition, and every one of them holds a
\* permit until it ends.
C14_AtMostPermitsTasks ==
  /\ Cardinality(PermitHolders) <= Permits
  /\ pool.permits + Cardinality(PermitHolders) = Permits

\* C14 witness: Permits tasks hold a permit and another is kept waiting.
C14_Witness ==
  /\ PoolFiles > Permits
  /\ Cardinality(PermitHolders) = Permits
  /\ \E f \in 1..PoolFiles : pool.task[f] = "queued"

\* C15: a drain task whose stability wait ended because the file was missing
\* or its metadata unreadable makes no upload attempt.
C15_MissingFileAbandoned == task.broke => task.attempts = 0

\* the upload attempts of the task that failed
FailedAttempts == {i \in 1..Len(task.outcomes) : task.outcomes[i] # "ok"}
\* the last upload attempt of the task has ended with out
LastOutcome(out) == task.outcomes # <<>> /\ task.outcomes[Len(task.outcomes)] = out

\* C16: a drain task makes at most MaxAttempts attempts, none after a success;
\* every failed attempt (error or timeout) is followed by a retry sleep and,
\* short of MaxAttempts, by another attempt; timeout, timeout, success ends as
\* a success after 3 attempts and 2 sleeps.
C16_AtMostThreeAttempts ==
  /\ task.attempts <= MaxAttempts
  /\ Len(task.outcomes) = IF task.pc = "uploading" THEN task.attempts - 1 ELSE task.attempts
  /\ \A i \in 1..(Len(task.outcomes) - 1) : task.outcomes[i] # "ok"
  /\ task.sleeps = Cardinality(FailedAttempts) - (IF task.pc = "retry_sleep" THEN 1 ELSE 0)
  /\ task.pc = "retry_sleep" => ~LastOutcome("ok")
  /\ (task.pc = "done" /\ ~LastOutcome("ok")) => task.attempts = MaxAttempts
  /\ LastOutcome("ok") => task.pc = "done"
  /\ task.outcomes = <<"timeout", "timeout", "ok">> =>
       task.attempts = 3 /\ task.sleeps = 2 /\ task.pc = "done"

\* C16 witness: the attempts of a task timed out twice and then succeeded.
C16_Witness == task.outcomes = <<"timeout", "timeout", "ok">> /\ task.pc = "done"

\* C17: as long as every stability poll of a task has found the file and read
\* a size different from the poll before, the task is still in its stability
\* wait, stable_count is below file_stability_checks and nothing was uploaded.
C17_UnstableFileNeverUploaded ==
  (task.pc # "none" /\ ~task.steady /\ ~task.broke) =>
    /\ task.pc = "stability"
    /\ task.stable_count < file_stability_checks
    /\ task.attempts = 0

\* C17 witness: the task's last two polls have read different sizes, no two
\* successive polls have read the same, and the task is still waiting.
C17_Witness ==
  /\ task.pc = "stability" /\ ~task.steady /\ ~task.broke
  /\ Len(task.polled) = 2 /\ task.polled[1] # task.polled[2]
  /\ task.stable_count = 0 /\ task.last_size = task.polled[2]

\* C18: an iteration of a watcher over a listed name whose file is missing
\* neither dispatches it nor inserts it into watched_segments; an iteration
\* over a name not yet in watched_segments whose file is on disk dispatches
\* and inserts it.
C18_MissingFileStaysEligible ==
  [][\A w \in Watchers, f \in Files :
       (wpc[w] = "loop" /\ f \in todo[w] /\ f \notin todo'[w]) =>
         /\ f \notin dir[w[2]] =>
              /\ seen'[w] = seen[w]
              /\ spawned'[LiveTask(w, f)] = spawned[LiveTask(w, f)]
         /\ (f \in dir[w[2]] /\ f \notin seen[w]) =>
              /\ f \in seen'[w]
              /\ spawned'[LiveTask(w, f)] = spawned[LiveTask(w, f)] + 1]_vars

\* C18 witness: of two listed names loaded on one tick, the watcher has been
\* over the first, whose file is missing, and has not inserted it.
C18_Witness ==
  \E w \in Watchers, a \in Files, b \in Files :
    /\ a # b /\ manifest[w[2]] = <<a, b>>
    /\ wpc[w] = "loop" /\ todo[w] = {b}
    /\ a \notin dir[w[2]] /\ a \notin seen[w] /\ spawned[LiveTask(w, a)] = 0

\* C19: a stop call in which a kill failed has still killed the encoder whose
\* kill did not fail, cleared both process handles and started both drains;
\* when it has returned it has awaited the live tasks it collected and
\* returned Ok.
C19_KillFailureNonFatal ==
  killFailed # {} =>
    /\ stopOpts # None
    /\ \A s \in Streams \ killFailed : <<stopOpts, s>> \notin encAlive
    /\ stopPc # "idle" =>
         /\ \A s \in Streams : process[s] = None
         /\ \A s \in Streams : drainPc[s] # "none"
    /\ stopPc = "idle" =>
         /\ stopResult = "Ok"
         /\ \A t \in collected : finished[t] = spawned[t]

\* C19 witness: a stop call has returned Ok although the kill of the screen
\* encoder failed; the video encoder is dead, the screen encoder runs on.
C19_Witness ==
  /\ StopReturned /\ stopResult = "Ok" /\ killFailed = {"screen"}
  /\ stopOpts # None
  /\ <<stopOpts, "screen">> \in encAlive /\ <<stopOpts, "video">> \notin encAlive

\* C20: a start call that has returned an error has left no encoder running.
C20_FailedStartLeavesNothing ==
  \A c \in Calls : spc[c] = "failed" => \A s \in Streams : <<c, s>> \notin encAlive


Holds(p, m) == p \in locks.holder[m]
Awaits(p, m) == \E i \in 1..Len(locks.queue[m]) : locks.queue[m][i] = p

\* upload_handles is locked, or awaited, only by a holder of the state guard
LockOrder == \A p \in LockProcs : Holds(p, "handles") \/ Awaits(p, "handles") => Holds(p, "state")

\* a stop call in its select! or in its await of the handles holds no guard
NoGuardAcrossWait ==
  \A p \in Stoppers, m \in Mutexes : locks.pc[p] \in {"drain", "await"} => ~Holds(p, m)

\* no two futures each await a mutex the other holds
NoWaitCycle ==
  \A p, q \in LockProcs, m, n \in Mutexes :
    ~(p # q /\ Awaits(p, m) /\ Holds(q, m) /\ Awaits(q, n) /\ Holds(p, n))

\* C21: the lock protocol of the session is deadlock-free.  Watchers and stop
\* take the state mutex before the upload_handles mutex, stop holds no guard
\* while it awaits the drains or the collected handles, no two futures wait
\* on each other, and a watcher that has called state.lock() to record a
\* task handle eventually holds both guards.
C21_LockProtocolDeadlockFree ==
  /\ [](LockOrder /\ NoGuardAcrossWait /\ NoWaitCycle)
  /\ \A w \in Loops : (locks.pc[w] = "lock_400") ~> (locks.pc[w] = "push")

\* C21 witness: a stop call holds the state guard for its kills, and behind
\* it await, in this order, another stop call back from its drains and a
\* watcher with a task handle to record.
C21_Witness ==
  \E w \in Loops, p, q \in Stoppers :
    /\ p # q
    /\ locks.pc[p] = "kills"
    /\ locks.queue["state"] = <<q, w>>
    /\ locks.pc[q] = "lock_166"
    /\ locks.pc[w] = "lock_400"

\* a stop call is in progress
StopInProgress == stopPc # "idle"

\* the stop call awaits (line 178) the handle of a live task that has not ended
AwaitsLiveTask == stopPc = "await" /\ \E t \in collected : finished[t] < spawned[t]

\* C22 as stated: a stop call in progress eventually returns, whatever the
\* live-phase upload tasks it awaits do.
C22_Original == StopInProgress ~> ~StopInProgress

\* C22: a stop call in progress eventually returns, provided every live-phase
\* upload task ends (its upload_file call, made under no timeout, returns).
C22_StopReturnsIfLiveUploadsReturn ==
  WF_vars(\E t \in LiveTasks : LiveTaskFinish(t)) => (StopInProgress ~> ~StopInProgress)

\* C22 witness: the stop call is through its drains and awaits a live task
\* that is still running.
C22_Witness == AwaitsLiveTask
====
